---------------------------- MODULE Spec2Model ----------------------------
(***************************************************************************)
(* Model of src/updated.ts: the linear-system pipeline                     *)
(*   augmentedMatrix -> rowEchelonForm -> reducedRowEchelonForm ->         *)
(*   identifyPivotColumns -> findParticularSolution ->                     *)
(*   findNullSpaceSolution                                                 *)
(* as the example driver at the bottom of the file chains it.              *)
(*                                                                         *)
(* Numbers.  A JavaScript number is an IEEE 754 double.  A finite double   *)
(* is modelled as <<sign, mant, exp>>, the value sign * mant * 2^exp with  *)
(* sign 1 or -1 and mant an odd natural number below 2^53, so two numbers  *)
(* are equal iff the triples are equal; 0 is <<1, <<>>, 0>>, the           *)
(* infinities are <<sign, <<>>, 1>> and NaN is <<0, <<>>, 1>>.  A mantissa *)
(* does not fit the integers of the checker, so it is a sequence of        *)
(* 15-bit limbs.  Div, Mul, Sub and Add compute the exact result and round *)
(* it to a double (53 bits, multiples of 2^-1074, below 2^1024), to        *)
(* nearest, ties to even, as the code's /, *, - and + do.  -0 is not told  *)
(* from 0: the code compares numbers with !== 0 only and never divides by  *)
(* a zero.  The value `null` is <<0, <<>>, 0>>, which is not a number; it  *)
(* also stands for undefined, which the code treats alike (`!= null`);     *)
(* the code never computes with it.                                        *)
(*                                                                         *)
(* Arrays.  A JavaScript array is a sequence; the code's 0-based index k   *)
(* is position k + 1 of the sequence.  Column indices stored in            *)
(* pivotColumns / nonPivotColumns keep the code's 0-based values.          *)
(* The elimination functions replace whole rows (matrix[i] = ...map(...))  *)
(* and never write into a row, so the shallow copies [...m] made by the    *)
(* driver share no row that is ever written.  Which driver variables hold  *)
(* the very array a function is assigning into is kept in `shared`.        *)
(***************************************************************************)
EXTENDS Integers, Sequences, FiniteSets

\* Bounds of the explored inputs: the numbers of rows and of columns of A are
\* at least 1 and add up to at most MaxSize (or A is empty); the entries of A
\* and b are either all integers in 0..MaxVal, or the entries of A are in
\* RoundingA and those of b in RoundingB, integers whose quotients are not
\* doubles (29 / 7 is rounded, and 29 - 7 * (29 / 7) is not 0).
MaxSize == 4
MaxVal == 1
RoundingA == {7, 29}
RoundingB == {29, 36}

VARIABLES pc, A, b, augmentedMatrixResult, matrix, i, refMatrixResult,
          rrefMatrixResult, pivotColumns, nonPivotColumns, particularSol,
          nullSpaceSolution, error, shared

vars == <<pc, A, b, augmentedMatrixResult, matrix, i, refMatrixResult,
          rrefMatrixResult, pivotColumns, nonPivotColumns, particularSol,
          nullSpaceSolution, error, shared>>

---------------------------------------------------------------------------
\* Numbers

\* Natural numbers of any size: little-endian sequences of limbs in
\* 0..(LimbBase - 1) without leading zero limbs; <<>> is 0.
LimbBits == 15
LimbBase == 32768

RECURSIVE Pow2(_)
Pow2(n) == IF n = 0 THEN 1 ELSE 2 * Pow2(n - 1)

Limb(a, k) == IF k <= Len(a) THEN a[k] ELSE 0

RECURSIVE BigTrim(_)
BigTrim(a) ==
    IF Len(a) = 0 \/ a[Len(a)] # 0 THEN a ELSE BigTrim(SubSeq(a, 1, Len(a) - 1))

RECURSIVE BigCmpFrom(_, _, _)
BigCmpFrom(a, c, k) ==
    IF k = 0 THEN 0
    ELSE IF a[k] < c[k] THEN 0 - 1
    ELSE IF a[k] > c[k] THEN 1
    ELSE BigCmpFrom(a, c, k - 1)

\* -1, 0 or 1 as a < c, a = c or a > c
BigCmp(a, c) ==
    IF Len(a) < Len(c) THEN 0 - 1
    ELSE IF Len(a) > Len(c) THEN 1
    ELSE BigCmpFrom(a, c, Len(a))

RECURSIVE BigAddFrom(_, _, _, _)
BigAddFrom(a, c, k, carry) ==
    IF k > Len(a) /\ k > Len(c)
    THEN IF carry = 0 THEN <<>> ELSE <<carry>>
    ELSE LET s == Limb(a, k) + Limb(c, k) + carry
         IN  <<s % LimbBase>> \o BigAddFrom(a, c, k + 1, s \div LimbBase)

BigAdd(a, c) == BigAddFrom(a, c, 1, 0)

RECURSIVE BigSubFrom(_, _, _, _)
BigSubFrom(a, c, k, borrow) ==
    IF k > Len(a) THEN <<>>
    ELSE LET d == a[k] - Limb(c, k) - borrow
         IN  IF d < 0
             THEN <<d + LimbBase>> \o BigSubFrom(a, c, k + 1, 1)
             ELSE <<d>> \o BigSubFrom(a, c, k + 1, 0)

\* a - c for a >= c
BigSub(a, c) == BigTrim(BigSubFrom(a, c, 1, 0))

RECURSIVE BigMulSmallFrom(_, _, _, _)
BigMulSmallFrom(a, s, k, carry) ==
    IF k > Len(a)
    THEN IF carry = 0 THEN <<>> ELSE <<carry>>
    ELSE LET p == a[k] * s + carry
         IN  <<p % LimbBase>> \o BigMulSmallFrom(a, s, k + 1, p \div LimbBase)

\* a * s for a limb s
BigMulSmall(a, s) == IF s = 0 THEN <<>> ELSE BigMulSmallFrom(a, s, 1, 0)

ZeroLimbs(n) == [k \in 1..n |-> 0]

RECURSIVE BigMulFrom(_, _, _)
BigMulFrom(a, c, k) ==
    IF k > Len(c) THEN <<>>
    ELSE BigAdd(IF c[k] = 0 THEN <<>> ELSE ZeroLimbs(k - 1) \o BigMulSmall(a, c[k]),
                BigMulFrom(a, c, k + 1))

BigMul(a, c) ==
    IF Len(a) = 0 \/ Len(c) = 0 THEN <<>>
    ELSE IF Len(c) = 1 THEN BigMulSmall(a, c[1])
    ELSE IF Len(a) = 1 THEN BigMulSmall(c, a[1])
    ELSE BigMulFrom(a, c, 1)

\* a * 2^bits
BigShl(a, bits) ==
    IF Len(a) = 0 THEN a
    ELSE ZeroLimbs(bits \div LimbBits) \o BigMulSmall(a, Pow2(bits % LimbBits))

RECURSIVE BigDivSmallFrom(_, _, _, _)
BigDivSmallFrom(a, d, k, rem) ==
    IF k = 0 THEN <<<<>>, rem>>
    ELSE LET cur == rem * LimbBase + a[k]
             rest == BigDivSmallFrom(a, d, k - 1, cur % d)
         IN  <<Append(rest[1], cur \div d), rest[2]>>

\* <<a div d, a mod d>> for a limb d > 0
BigDivSmall(a, d) ==
    LET r == BigDivSmallFrom(a, d, Len(a), 0) IN <<BigTrim(r[1]), r[2]>>

\* a div 2^bits
BigShr(a, bits) ==
    LET limbs == bits \div LimbBits
    IN  IF limbs >= Len(a) THEN <<>>
        ELSE BigDivSmall(SubSeq(a, limbs + 1, Len(a)), Pow2(bits % LimbBits))[1]

\* a mod 2^bits
BigLow(a, bits) ==
    LET limbs == bits \div LimbBits
    IN  IF limbs >= Len(a) THEN a
        ELSE BigTrim(Append(SubSeq(a, 1, limbs), a[limbs + 1] % Pow2(bits % LimbBits)))

RECURSIVE BitLen(_)
BitLen(n) == IF n = 0 THEN 0 ELSE 1 + BitLen(n \div 2)

BigBitLen(a) == IF Len(a) = 0 THEN 0 ELSE LimbBits * (Len(a) - 1) + BitLen(a[Len(a)])

RECURSIVE TrailingZeros(_)
TrailingZeros(n) == IF n % 2 = 1 THEN 0 ELSE 1 + TrailingZeros(n \div 2)

RECURSIVE BigTrailingZeros(_, _)
BigTrailingZeros(a, k) ==
    IF a[k] = 0 THEN LimbBits + BigTrailingZeros(a, k + 1) ELSE TrailingZeros(a[k])

\* The largest q in lo..(hi - 1) with d * q <= r, given d * lo <= r < d * hi
RECURSIVE BigDigit(_, _, _, _)
BigDigit(r, d, lo, hi) ==
    IF hi - lo = 1 THEN lo
    ELSE LET mid == (lo + hi) \div 2
         IN  IF BigCmp(BigMulSmall(d, mid), r) <= 0
             THEN BigDigit(r, d, mid, hi)
             ELSE BigDigit(r, d, lo, mid)

\* Long division limb by limb: <<quotient, remainder>> of the limbs k.. of a
\* by d.
RECURSIVE BigDivModFrom(_, _, _)
BigDivModFrom(a, d, k) ==
    IF k > Len(a) THEN <<<<>>, <<>>>>
    ELSE LET prev == BigDivModFrom(a, d, k + 1)
             r == BigTrim(<<a[k]>> \o prev[2])
             q == BigDigit(r, d, 0, LimbBase)
         IN  <<<<q>> \o prev[1], BigSub(r, BigMulSmall(d, q))>>

\* <<a div d, a mod d>> for d > 0; the remainder is given as a limb sequence
BigDivMod(a, d) ==
    IF Len(d) = 1
    THEN LET r == BigDivSmall(a, d[1])
         IN  <<r[1], IF r[2] = 0 THEN <<>> ELSE <<r[2]>>>>
    ELSE LET r == BigDivModFrom(a, d, 1) IN <<BigTrim(r[1]), r[2]>>

\* A double: sign * mant * 2^exp, or an infinity, or NaN; see the head of the
\* module.

Zero == <<1, <<>>, 0>>
One == <<1, <<1>>, 0>>
Null == <<0, <<>>, 0>>
NaN == <<0, <<>>, 1>>
Infinity(sign) == <<sign, <<>>, 1>>

IsZero(x) == x = Zero
IsInfinite(x) == x = Infinity(1) \/ x = Infinity(0 - 1)

\* The dyadic sign * m * 2^e with an odd mantissa
Canon(sign, m, e) ==
    IF Len(m) = 0 THEN Zero
    ELSE IF m[1] % 2 = 1 THEN <<sign, m, e>>
    ELSE LET tz == BigTrailingZeros(m, 1) IN <<sign, BigShr(m, tz), e + tz>>

\* Doubles have a mantissa of MantBits bits, are multiples of 2^MinExp and
\* are below 2^MaxExp.
MantBits == 53
MinExp == 0 - 1074
MaxExp == 1024

\* Round sign * m * 2^e to nearest, ties to even.
Round(sign, m, e) ==
    LET byPrecision == BigBitLen(m) - MantBits
        byRange == MinExp - e
        drop == IF byPrecision > byRange THEN byPrecision ELSE byRange
        kept == BigShr(m, drop)
        half == BigCmp(BigLow(m, drop), BigShl(<<1>>, drop - 1))
        up == half > 0 \/ (half = 0 /\ Limb(kept, 1) % 2 = 1)
        r == IF drop <= 0 THEN Canon(sign, m, e)
             ELSE Canon(sign, IF up THEN BigAdd(kept, <<1>>) ELSE kept, e + drop)
    IN  IF BigBitLen(r[2]) + r[3] > MaxExp THEN Infinity(sign) ELSE r

Neg(x) == IF x = Zero \/ x = NaN THEN x ELSE <<0 - x[1], x[2], x[3]>>

\* The exact product, sum and difference of two finite doubles
ExactMul(x, y) ==
    IF x = Zero \/ y = Zero THEN Zero
    ELSE <<x[1] * y[1], BigMul(x[2], y[2]), x[3] + y[3]>>

ExactAdd(x, y) ==
    IF x = Zero THEN y
    ELSE IF y = Zero THEN x
    ELSE LET e == IF x[3] < y[3] THEN x[3] ELSE y[3]
             mx == BigShl(x[2], x[3] - e)
             my == BigShl(y[2], y[3] - e)
             c == BigCmp(mx, my)
         IN  IF x[1] = y[1] THEN Canon(x[1], BigAdd(mx, my), e)
             ELSE IF c = 0 THEN Zero
             ELSE IF c > 0 THEN Canon(x[1], BigSub(mx, my), e)
             ELSE Canon(y[1], BigSub(my, mx), e)

ExactSub(x, y) == ExactAdd(x, Neg(y))

\* The position above the highest bit of a finite nonzero double
Top(x) == BigBitLen(x[2]) + x[3]

\* x + y; a term below a quarter of the last bit of the other term does not
\* change it.
Add(x, y) ==
    IF x = NaN \/ y = NaN THEN NaN
    ELSE IF IsInfinite(x) THEN (IF IsInfinite(y) /\ y # x THEN NaN ELSE x)
    ELSE IF IsInfinite(y) THEN y
    ELSE IF x = Zero THEN y
    ELSE IF y = Zero THEN x
    ELSE IF Top(x) - Top(y) > MantBits + 3 THEN x
    ELSE IF Top(y) - Top(x) > MantBits + 3 THEN y
    ELSE LET s == ExactAdd(x, y) IN Round(s[1], s[2], s[3])

\* x - y
Sub(x, y) == Add(x, Neg(y))

\* x * y
Mul(x, y) ==
    IF x = NaN \/ y = NaN THEN NaN
    ELSE IF IsInfinite(x) \/ IsInfinite(y)
    THEN (IF x = Zero \/ y = Zero THEN NaN ELSE Infinity(x[1] * y[1]))
    ELSE LET p == ExactMul(x, y) IN Round(p[1], p[2], p[3])

\* x / y: the quotient of the mantissas when it is a natural number, else
\* computed to MantBits + 3 bits or more, with one more bit that tells
\* whether a remainder is left.
Div(x, y) ==
    IF x = NaN \/ y = NaN THEN NaN
    ELSE IF IsInfinite(x) THEN (IF IsInfinite(y) THEN NaN ELSE Infinity(x[1] * y[1]))
    ELSE IF IsInfinite(y) THEN Zero
    ELSE IF y = Zero THEN (IF x = Zero THEN NaN ELSE Infinity(x[1]))
    ELSE IF x = Zero THEN Zero
    ELSE IF Len(x[2]) = 1 /\ Len(y[2]) = 1 /\ x[2][1] % y[2][1] = 0
    THEN Round(x[1] * y[1], <<x[2][1] \div y[2][1]>>, x[3] - y[3])
    ELSE LET gap == MantBits + 3 + BigBitLen(y[2]) - BigBitLen(x[2])
             k == IF gap > 0 THEN gap ELSE 0
             qr == BigDivMod(BigShl(x[2], k), y[2])
             sticky == IF Len(qr[2]) = 0 THEN <<>> ELSE <<1>>
         IN  Round(x[1] * y[1], BigAdd(BigShl(qr[1], 1), sticky), x[3] - y[3] - k - 1)

\* The integer n, |n| < LimbBase, as a number
FromInt(n) == IF n = 0 THEN Zero
              ELSE IF n < 0 THEN Canon(0 - 1, <<0 - n>>, 0) ELSE Canon(1, <<n>>, 0)

---------------------------------------------------------------------------
\* Arrays

\* row.findIndex((element) => element !== 0): the 0-based index of the
\* first nonzero entry, -1 if there is none.
findIndex(row) ==
    IF \E k \in 1..Len(row) : ~IsZero(row[k])
    THEN (CHOOSE k \in 1..Len(row) :
              /\ ~IsZero(row[k])
              /\ \A h \in 1..(k - 1) : IsZero(row[h])) - 1
    ELSE 0 - 1

\* arr[index] = value on a JavaScript array: writing at or past the end
\* lengthens the array (the skipped positions are holes, read as undefined).
SetAt(arr, index, value) ==
    [k \in 1..(IF index + 1 > Len(arr) THEN index + 1 ELSE Len(arr)) |->
        IF k = index + 1 THEN value
        ELSE IF k <= Len(arr) THEN arr[k] ELSE Null]

\* Array(length).fill(0)
ZeroArray(length) == [k \in 1..length |-> Zero]

---------------------------------------------------------------------------
\* The functions of src/updated.ts

\* augmentedMatrix with b[i] placed in front of the row: (row, i) => [b[i], ...row]
augmentedMatrixPrepend(a, bb) == [r \in 1..Len(a) |-> <<bb[r]>> \o a[r]]

\* A.map((row, i) => [...row, b[i]])
augmentedMatrix(a, bb) == [r \in 1..Len(a) |-> Append(a[r], bb[r])]

\* rowEchelonIteration eliminating below with row i as it was before the
\* division by the pivot.
rowEchelonIterationUnnormalized(mat, row) ==
    LET pivotIndex == findIndex(mat[row + 1])
        pivot == mat[row + 1][pivotIndex + 1]
        normalized == [k \in 1..Len(mat[row + 1]) |-> Div(mat[row + 1][k], pivot)]
    IN  IF pivotIndex = 0 - 1 THEN mat
        ELSE [j \in 1..Len(mat) |->
                IF j - 1 = row THEN normalized
                ELSE IF j - 1 > row
                THEN LET factor == mat[j][pivotIndex + 1]
                     IN  [k \in 1..Len(mat[j]) |->
                            Sub(mat[j][k], Mul(factor, mat[row + 1][k]))]
                ELSE mat[j]]

\* One iteration (row i) of the loop of rowEchelonForm that does not throw:
\* skip a zero row, else divide row i by its pivot and eliminate below.
rowEchelonIteration(mat, row) ==
    LET pivotIndex == findIndex(mat[row + 1])
        pivot == mat[row + 1][pivotIndex + 1]
        normalized == [k \in 1..Len(mat[row + 1]) |-> Div(mat[row + 1][k], pivot)]
    IN  IF pivotIndex = 0 - 1 THEN mat
        ELSE [j \in 1..Len(mat) |->
                IF j - 1 = row THEN normalized
                ELSE IF j - 1 > row
                THEN LET factor == mat[j][pivotIndex + 1]
                     IN  [k \in 1..Len(mat[j]) |->
                            Sub(mat[j][k], Mul(factor, normalized[k]))]
                ELSE mat[j]]

\* matrix[0].length on a matrix without rows: matrix[0] is undefined.
TypeError == "TypeError: Cannot read properties of undefined (reading 'length')"

\* rowEchelonThrows with the throw placed where no pivot is found.
rowEchelonThrowsOnZeroRow(mat, row) == findIndex(mat[row + 1]) = 0 - 1

\* The condition under which iteration i of rowEchelonForm throws
\* "Division by zero": a pivot was found and it is null.
rowEchelonThrows(mat, row) ==
    LET pivotIndex == findIndex(mat[row + 1])
    IN  /\ pivotIndex # 0 - 1
        /\ mat[row + 1][pivotIndex + 1] = Null

\* reducedRowEchelonIteration with the inner loop stopping at j > 0, so that
\* row 0 is never eliminated.
reducedRowEchelonIterationSkipTop(mat, row) ==
    LET pivotIndex == findIndex(mat[row + 1])
    IN  IF pivotIndex = 0 - 1 THEN mat
        ELSE [j \in 1..Len(mat) |->
                IF j - 1 < row /\ j - 1 > 0
                THEN LET factor == mat[j][pivotIndex + 1]
                     IN  [k \in 1..Len(mat[j]) |->
                            Sub(mat[j][k], Mul(factor, mat[row + 1][k]))]
                ELSE mat[j]]

\* reducedRowEchelonIteration adding factor * row i instead of subtracting it.
reducedRowEchelonIterationPlus(mat, row) ==
    LET pivotIndex == findIndex(mat[row + 1])
    IN  IF pivotIndex = 0 - 1 THEN mat
        ELSE [j \in 1..Len(mat) |->
                IF j - 1 < row
                THEN LET factor == mat[j][pivotIndex + 1]
                     IN  [k \in 1..Len(mat[j]) |->
                            Add(mat[j][k], Mul(factor, mat[row + 1][k]))]
                ELSE mat[j]]

\* The loop of rowEchelonForm from row `row` to the last row; an iteration
\* that throws ends it.
RECURSIVE rowEchelonLoop(_, _)
rowEchelonLoop(mat, row) ==
    IF row >= Len(mat) \/ rowEchelonThrows(mat, row) THEN mat
    ELSE rowEchelonLoop(rowEchelonIteration(mat, row), row + 1)

\* What rowEchelonForm returns (when no iteration throws); on a matrix
\* without rows, matrix[0].length throws before the loop.
rowEchelonForm(mat) == IF Len(mat) = 0 THEN TypeError ELSE rowEchelonLoop(mat, 0)

\* One iteration (row i) of the loop of reducedRowEchelonForm: skip a zero
\* row, else subtract factor * row i from every row above it.
reducedRowEchelonIteration(mat, row) ==
    LET pivotIndex == findIndex(mat[row + 1])
    IN  IF pivotIndex = 0 - 1 THEN mat
        ELSE [j \in 1..Len(mat) |->
                IF j - 1 < row
                THEN LET factor == mat[j][pivotIndex + 1]
                     IN  [k \in 1..Len(mat[j]) |->
                            Sub(mat[j][k], Mul(factor, mat[row + 1][k]))]
                ELSE mat[j]]

\* The loop of reducedRowEchelonForm from row `row` down to row 0.
RECURSIVE reducedRowEchelonLoop(_, _)
reducedRowEchelonLoop(mat, row) ==
    IF row < 0 THEN mat
    ELSE reducedRowEchelonLoop(reducedRowEchelonIteration(mat, row), row - 1)

reducedRowEchelonForm(mat) == reducedRowEchelonLoop(mat, Len(mat) - 1)

\* pivotColumns of identifyPivotColumns: the findIndex of every row that
\* has a nonzero entry, pushed in row order.
identifyPivots(mat) ==
    LET NotMinusOne(x) == x # 0 - 1
    IN  SelectSeq([r \in 1..Len(mat) |-> findIndex(mat[r])], NotMinusOne)

\* nonPivotColumns of identifyPivotColumns: every j in 0 .. length-2 that
\* pivotColumns does not include, ascending.
identifyNonPivots(mat) ==
    LET pivots == identifyPivots(mat)
        NotIncluded(j) == \A k \in 1..Len(pivots) : pivots[k] # j
    IN  SelectSeq([j \in 1..(Len(mat[1]) - 1) |-> j - 1], NotIncluded)

identifyPivotColumns(mat) ==
    IF Len(mat) = 0 THEN TypeError
    ELSE [pivotColumns |-> identifyPivots(mat),
          nonPivotColumns |-> identifyNonPivots(mat)]

\* The body of pivotColumns.forEach in findNullSpaceSolution, applied to the
\* first `count` pivot columns: nullSpaceVector[col] = -matrix[rowIndex][free].
RECURSIVE nullSpaceForEach(_, _, _, _, _)
nullSpaceForEach(mat, pivots, free, vector, count) ==
    IF count = 0 THEN vector
    ELSE SetAt(nullSpaceForEach(mat, pivots, free, vector, count - 1),
               pivots[count], Neg(mat[count][free + 1]))

\* The callback of Array.from in findNullSpaceSolution for one index.
nullSpaceVector(mat, index) ==
    LET numCols == Len(mat[1])
        pivots == identifyPivotColumns(mat).pivotColumns
        free == Len(pivots) + index
    IN  nullSpaceForEach(mat, pivots, free,
                         SetAt(ZeroArray(numCols - 1), free, One),
                         Len(pivots))

findNullSpaceSolution(mat) ==
    LET numCols == Len(mat[1])
        pivots == identifyPivotColumns(mat).pivotColumns
    IN  IF Len(mat) = 0 THEN TypeError
        ELSE [k \in 1..(numCols - Len(pivots)) |-> nullSpaceVector(mat, k - 1)]

\* The loop of findParticularSolution over the first `count` rows.
RECURSIVE particularLoop(_, _)
particularLoop(mat, count) ==
    IF count = 0 THEN ZeroArray(Len(mat[1]) - 1)
    ELSE LET before == particularLoop(mat, count - 1)
             pivotColumn == findIndex(mat[count])
         IN  IF pivotColumn # 0 - 1
             THEN SetAt(before, pivotColumn, mat[count][Len(mat[1])])
             ELSE before

findParticularSolution(mat) ==
    IF Len(mat) = 0 THEN TypeError ELSE particularLoop(mat, Len(mat))

---------------------------------------------------------------------------
\* The driver (src/updated.ts, lines 161-206) as a state machine

Values == {FromInt(v) : v \in 0..MaxVal}

\* All arrays of the given length over the given numbers.
Arrays(length, values) == [1..length -> values]

\* All matrices with the given numbers of rows and columns over the given
\* numbers.
Matrices(rows, cols, values) == [1..rows -> Arrays(cols, values)]

\* The argument x itself passed to the function instead of [...x]: the
\* function's array is the one the variables in `names` hold.
spreadSharedAliased(names) == names

\* [...x], x being the array the driver variables in `names` hold: a new
\* array, which no driver variable holds.
spreadShared(names) == {}

Init ==
    /\ \E rows \in 0..(MaxSize - 1), cols \in 1..(MaxSize - 1) :
          /\ rows + cols <= MaxSize
          /\ \/ /\ A \in Matrices(rows, cols, Values)
                /\ b \in Arrays(rows, Values)
             \/ /\ A \in Matrices(rows, cols, {FromInt(v) : v \in RoundingA})
                /\ b \in Arrays(rows, {FromInt(v) : v \in RoundingB})
    /\ pc = "augment"
    /\ augmentedMatrixResult = <<>>
    /\ matrix = <<>>
    /\ i = 0
    /\ refMatrixResult = <<>>
    /\ rrefMatrixResult = <<>>
    /\ pivotColumns = <<>>
    /\ nonPivotColumns = <<>>
    /\ particularSol = <<>>
    /\ nullSpaceSolution = <<>>
    /\ error = "none"
    /\ shared = {}

\* Step 1, and the call rowEchelonForm([...augmentedMatrixResult]) up to its
\* loop: `matrix` is the copy the function works on, i its loop variable.
Augment ==
    /\ pc = "augment"
    /\ augmentedMatrixResult' = augmentedMatrix(A, b)
    /\ matrix' = augmentedMatrix(A, b)
    /\ shared' = spreadShared({"augmentedMatrixResult"})
    /\ i' = 0
    /\ pc' = "ref"
    /\ UNCHANGED <<A, b, refMatrixResult, rrefMatrixResult, pivotColumns,
                   nonPivotColumns, particularSol, nullSpaceSolution, error>>

\* One iteration of the loop of rowEchelonForm, or, on a matrix without
\* rows, the throw of matrix[0].length before the loop.  The assignments to
\* matrix[i], matrix[j] are seen through every variable that holds the same
\* array.  A throw ends the run; the last iteration returns `matrix` to the
\* driver, which stores it in refMatrixResult and calls
\* reducedRowEchelonForm([...refMatrixResult]).
RowEchelonStep ==
    /\ pc = "ref"
    /\ i < Len(matrix) \/ Len(matrix) = 0
    /\ IF Len(matrix) = 0 \/ rowEchelonThrows(matrix, i)
       THEN /\ error' = IF Len(matrix) = 0 THEN TypeError
                        ELSE "Division by zero. Choose a different A and/or b."
            /\ pc' = "thrown"
            /\ UNCHANGED <<matrix, i, refMatrixResult, augmentedMatrixResult,
                           shared>>
       ELSE LET result == rowEchelonIteration(matrix, i)
            IN  /\ matrix' = result
                /\ augmentedMatrixResult' =
                       IF "augmentedMatrixResult" \in shared
                       THEN result ELSE augmentedMatrixResult
                /\ error' = error
                /\ IF i + 1 < Len(matrix)
                   THEN /\ i' = i + 1
                        /\ pc' = "ref"
                        /\ UNCHANGED <<refMatrixResult, shared>>
                   ELSE /\ refMatrixResult' = result
                        /\ shared' = spreadShared(shared \cup {"refMatrixResult"})
                        /\ i' = Len(matrix) - 1
                        /\ pc' = "rref"
    /\ UNCHANGED <<A, b, rrefMatrixResult, pivotColumns,
                   nonPivotColumns, particularSol, nullSpaceSolution>>

\* One iteration of the loop of reducedRowEchelonForm; the last one (i = 0)
\* returns `matrix` to the driver.
ReducedRowEchelonStep ==
    /\ pc = "rref"
    /\ i >= 0
    /\ LET result == reducedRowEchelonIteration(matrix, i)
       IN  /\ matrix' = result
           /\ augmentedMatrixResult' =
                  IF "augmentedMatrixResult" \in shared
                  THEN result ELSE augmentedMatrixResult
           /\ refMatrixResult' =
                  IF "refMatrixResult" \in shared
                  THEN result ELSE refMatrixResult
           /\ IF i - 1 >= 0
              THEN /\ i' = i - 1
                   /\ pc' = "rref"
                   /\ UNCHANGED <<rrefMatrixResult, shared>>
              ELSE /\ rrefMatrixResult' = result
                   /\ shared' = shared \cup {"rrefMatrixResult"}
                   /\ i' = i - 1
                   /\ pc' = "identify"
    /\ UNCHANGED <<A, b, pivotColumns,
                   nonPivotColumns, particularSol, nullSpaceSolution, error>>

\* Step 4: identifyPivotColumns(rrefMatrixResult)
Identify ==
    /\ pc = "identify"
    /\ pivotColumns' = identifyPivotColumns(rrefMatrixResult).pivotColumns
    /\ nonPivotColumns' = identifyPivotColumns(rrefMatrixResult).nonPivotColumns
    /\ pc' = "particular"
    /\ UNCHANGED <<A, b, augmentedMatrixResult, matrix, i, refMatrixResult,
                   rrefMatrixResult, particularSol, nullSpaceSolution, error,
                   shared>>

\* findParticularSolution(rrefMatrixResult)
Particular ==
    /\ pc = "particular"
    /\ particularSol' = findParticularSolution(rrefMatrixResult)
    /\ pc' = "nullspace"
    /\ UNCHANGED <<A, b, augmentedMatrixResult, matrix, i, refMatrixResult,
                   rrefMatrixResult, pivotColumns, nonPivotColumns,
                   nullSpaceSolution, error, shared>>

\* findNullSpaceSolution(rrefMatrixResult)
NullSpace ==
    /\ pc = "nullspace"
    /\ nullSpaceSolution' = findNullSpaceSolution(rrefMatrixResult)
    /\ pc' = "done"
    /\ UNCHANGED <<A, b, augmentedMatrixResult, matrix, i, refMatrixResult,
                   rrefMatrixResult, pivotColumns, nonPivotColumns,
                   particularSol, error, shared>>

Next ==
    \/ Augment
    \/ RowEchelonStep
    \/ ReducedRowEchelonStep
    \/ Identify
    \/ Particular
    \/ NullSpace

Spec == Init /\ [][Next]_vars

---------------------------------------------------------------------------
\* Vocabulary of the properties

\* The stages of the driver that follow the named call.
AfterRowEchelon == {"rref", "identify", "particular", "nullspace", "done"}
AfterReduced == {"identify", "particular", "nullspace", "done"}
AfterIdentify == {"particular", "nullspace", "done"}
AfterParticular == {"nullspace", "done"}

Range(seq) == {seq[k] : k \in 1..Len(seq)}

\* The properties compute without rounding: ExactAdd, ExactSub and ExactMul
\* give the exact sum, difference and product of two doubles.

\* 2^-30, a little under 1e-9
Tolerance == <<1, <<1>>, 0 - 30>>

\* |x - y| <= Tolerance
Near(x, y) ==
    LET d == ExactSub(x, y)
        shift == Tolerance[3] - d[3]
    IN  \/ d = Zero
        \/ /\ shift >= 0
           /\ BigCmp(d[2], BigShl(Tolerance[2], shift)) <= 0

\* Sum over k = 1..count of a[k] * x[k].
RECURSIVE DotUpTo(_, _, _)
DotUpTo(a, x, count) ==
    IF count = 0 THEN Zero
    ELSE ExactAdd(DotUpTo(a, x, count - 1), ExactMul(a[count], x[count]))

\* The product of the coefficient matrix a with the vector x (the entries of
\* x at the coefficient columns of a).
MatVec(a, x) == [r \in 1..Len(a) |-> DotUpTo(a[r], x, Len(a[r]))]

RemoveAt(seq, k) ==
    [j \in 1..(Len(seq) - 1) |-> IF j < k THEN seq[j] ELSE seq[j + 1]]

\* Determinant of a square matrix by cofactor expansion along the first row.
RECURSIVE Det(_)
RECURSIVE DetSum(_, _)
Det(mat) == IF Len(mat) = 0 THEN One ELSE DetSum(mat, Len(mat))
DetSum(mat, count) ==
    IF count = 0 THEN Zero
    ELSE LET minor == [r \in 1..(Len(mat) - 1) |-> RemoveAt(mat[r + 1], count)]
             term == ExactMul(mat[1][count], Det(minor))
         IN  IF count % 2 = 1
             THEN ExactAdd(DetSum(mat, count - 1), term)
             ELSE ExactSub(DetSum(mat, count - 1), term)

Ascending(S) ==
    CHOOSE s \in [1..Cardinality(S) -> S] :
        \A j, k \in 1..Cardinality(S) : j < k => s[j] < s[k]

SubMatrix(mat, R, C) ==
    LET rs == Ascending(R)
        cs == Ascending(C)
    IN  [r \in 1..Cardinality(R) |-> [c \in 1..Cardinality(C) |-> mat[rs[r]][cs[c]]]]

\* The rank of a matrix: the size of its largest square submatrix with a
\* nonzero determinant.
Rank(mat) ==
    LET sizes == {k \in 0..Len(mat) :
                    \E R \in SUBSET (1..Len(mat)), C \in SUBSET (1..Len(mat[1])) :
                        /\ Cardinality(R) = k
                        /\ Cardinality(C) = k
                        /\ ~IsZero(Det(SubMatrix(mat, R, C)))}
    IN  CHOOSE k \in sizes : \A h \in sizes : h <= k

\* Ax = b has a solution (Rouche-Capelli), decided on the inputs alone.
Consistent == Rank(A) = Rank(augmentedMatrix(A, b))

\* Some row of mat has all-zero coefficients and a nonzero augmented entry.
InconsistentRow(mat) ==
    \E r \in 1..Len(mat) :
        /\ \A k \in 1..(Len(mat[r]) - 1) : IsZero(mat[r][k])
        /\ ~IsZero(mat[r][Len(mat[r])])

\* The elimination decides consistency as the rank criterion does.
EliminationDecidesConsistency ==
    pc \in AfterReduced => (Consistent <=> ~InconsistentRow(rrefMatrixResult))

TypeOK ==
    /\ pc \in {"augment", "ref", "rref", "identify", "particular",
               "nullspace", "done", "thrown"}
    /\ error \in {"none", "Division by zero. Choose a different A and/or b.",
                  TypeError}
    /\ \A r \in 1..Len(matrix) : \A k \in 1..Len(matrix[r]) :
           /\ matrix[r][k] # Null
           /\ BigBitLen(matrix[r][k][2]) <= MantBits

---------------------------------------------------------------------------
\* Properties

\* C1: once identifyPivotColumns has run on the RREF of [A | b], pivotColumns
\* and nonPivotColumns are disjoint, their union is exactly the coefficient
\* column indices 0..n-2 and their lengths add up to n-1, for inconsistent
\* systems too.
C1_PivotPartition ==
    pc \in AfterIdentify =>
        LET n == Len(rrefMatrixResult[1])
        IN  /\ Range(pivotColumns) \cap Range(nonPivotColumns) = {}
            /\ Range(pivotColumns) \cup Range(nonPivotColumns) = 0..(n - 2)
            /\ Len(pivotColumns) + Len(nonPivotColumns) = n - 1

\* C2: every vector v returned by findNullSpaceSolution on the RREF of
\* [A | b] satisfies A.v = 0 within the tolerance.
C2_NullSpaceInKernel ==
    pc = "done" =>
        \A k \in 1..Len(nullSpaceSolution) : \A r \in 1..Len(A) :
            Near(MatVec(A, nullSpaceSolution[k])[r], Zero)

\* C3: findNullSpaceSolution returns exactly one vector per free column, the
\* k-th one being the vector of the k-th free column in ascending order (its
\* entry there is 1); a system without free columns gets an empty basis.
C3_OneVectorPerFreeColumn ==
    pc = "done" =>
        /\ Len(nullSpaceSolution) = Len(nonPivotColumns)
        /\ \A k \in 1..Len(nullSpaceSolution) :
               /\ k <= Len(nonPivotColumns)
               /\ nonPivotColumns[k] + 1 <= Len(nullSpaceSolution[k])
               /\ nullSpaceSolution[k][nonPivotColumns[k] + 1] = One

\* C4: for a consistent system the particular solution p returned by
\* findParticularSolution on the RREF of [A | b] satisfies A.p = b within the
\* tolerance, and p is 0 at every free column.
C4_ParticularSolves ==
    (pc \in AfterParticular /\ Consistent) =>
        /\ \A r \in 1..Len(A) : Near(MatVec(A, particularSol)[r], b[r])
        /\ \A k \in 1..Len(nonPivotColumns) :
               particularSol[nonPivotColumns[k] + 1] = Zero

\* C5: after rowEchelonForm the leading entry of every nonzero row is 1, and
\* every row below a nonzero row has 0 in that row's pivot column.
C5_RowEchelonResult ==
    pc \in AfterRowEchelon =>
        \A r \in 1..Len(refMatrixResult) :
            LET c == findIndex(refMatrixResult[r])
            IN  c # 0 - 1 =>
                  /\ refMatrixResult[r][c + 1] = One
                  /\ \A j \in (r + 1)..Len(refMatrixResult) :
                         refMatrixResult[j][c + 1] = Zero

\* rowEchelonForm has returned after eliminating a nonzero entry below the
\* pivot of row 0 and dividing the row below by a pivot other than 1.
C5_Witness ==
    /\ pc = "rref"
    /\ Len(A) >= 2
    /\ ~IsZero(A[1][1])
    /\ ~IsZero(A[2][1])
    /\ LET below == rowEchelonIteration(augmentedMatrixResult, 0)[2]
       IN  /\ findIndex(below) # 0 - 1
           /\ below[findIndex(below) + 1] # One
    /\ findIndex(refMatrixResult[2]) # 0 - 1

\* C6: after reducedRowEchelonForm on the output of rowEchelonForm, every
\* nonzero row has 1 at its pivot column and every other row has 0 there.
C6_ReducedResult ==
    pc \in AfterReduced =>
        \A r \in 1..Len(rrefMatrixResult) :
            LET c == findIndex(rrefMatrixResult[r])
            IN  c # 0 - 1 =>
                  /\ rrefMatrixResult[r][c + 1] = One
                  /\ \A j \in 1..Len(rrefMatrixResult) :
                         j # r => rrefMatrixResult[j][c + 1] = Zero

\* reducedRowEchelonForm has returned after eliminating a nonzero entry above
\* a pivot.
C6_Witness ==
    /\ pc = "identify"
    /\ \E r \in 1..Len(refMatrixResult) :
          LET c == findIndex(refMatrixResult[r])
          IN  /\ c # 0 - 1
              /\ \E j \in 1..(r - 1) : ~IsZero(refMatrixResult[j][c + 1])
    /\ rrefMatrixResult # refMatrixResult

\* C7: for every output M of rowEchelonForm, reducedRowEchelonForm applied
\* twice to M gives the same matrix as applying it once.
C7_ReducedIdempotent ==
    pc \in AfterRowEchelon =>
        LET once == reducedRowEchelonForm(refMatrixResult)
        IN  reducedRowEchelonForm(once) = once

\* The driver's reducedRowEchelonForm call has changed the REF matrix, and
\* what it returned is what the function computes from the REF matrix.
C7_Witness ==
    /\ pc = "done"
    /\ rrefMatrixResult # refMatrixResult
    /\ rrefMatrixResult = reducedRowEchelonForm(refMatrixResult)

\* C8: the particular solution and every null-space vector have length n-1,
\* n the number of columns of the RREF augmented matrix.
C8_SolutionLengths ==
    pc = "done" =>
        LET n == Len(rrefMatrixResult[1])
        IN  /\ Len(particularSol) = n - 1
            /\ \A k \in 1..Len(nullSpaceSolution) :
                   Len(nullSpaceSolution[k]) = n - 1

\* C9: when the eliminated matrix has a row with all-zero coefficients and a
\* nonzero augmented entry, the pipeline reports InconsistentSystem and
\* returns no particular solution.
C9_InconsistentReported ==
    (pc \in AfterParticular /\ InconsistentRow(rrefMatrixResult)) =>
        /\ error = "InconsistentSystem"
        /\ particularSol = <<>>

\* C10: augmentedMatrix(A, b) has as many rows as A, its row i is A[i]
\* followed by b[i], and A and b never change.
C10_Augmented ==
    /\ [](pc # "augment" =>
            /\ Len(augmentedMatrixResult) = Len(A)
            /\ \A r \in 1..Len(A) :
                   /\ Len(augmentedMatrixResult[r]) = Len(A[r]) + 1
                   /\ \A k \in 1..Len(A[r]) :
                          augmentedMatrixResult[r][k] = A[r][k]
                   /\ augmentedMatrixResult[r][Len(A[r]) + 1] = b[r])
    /\ [][A' = A /\ b' = b]_vars

\* augmentedMatrix has returned for an A with two rows and a b whose entries
\* differ from each other and from the entries of A's first column.
C10_Witness ==
    /\ pc = "ref"
    /\ Len(A) = 2
    /\ b[1] # b[2]
    /\ b[1] # A[1][1]
    /\ augmentedMatrixResult # <<>>

\* C11: run as the driver chains it, the pipeline never changes A, b, the
\* augmented matrix or the REF matrix once each has been produced, and
\* running the functions again on the A and b it leaves gives the same
\* augmented matrix, REF, RREF and solution.
C11_PipelineKeepsInputs ==
    /\ [][/\ A' = A
          /\ b' = b
          /\ pc # "augment" => augmentedMatrixResult' = augmentedMatrixResult
          /\ pc \in AfterRowEchelon => refMatrixResult' = refMatrixResult]_vars
    /\ [](pc = "done" =>
            LET again == augmentedMatrix(A, b)
                ref == rowEchelonForm(again)
                rref == reducedRowEchelonForm(ref)
            IN  /\ augmentedMatrixResult = again
                /\ refMatrixResult = ref
                /\ rrefMatrixResult = rref
                /\ particularSol = findParticularSolution(rref)
                /\ nullSpaceSolution = findNullSpaceSolution(rref))

\* The driver has finished a run in which rowEchelonForm and
\* reducedRowEchelonForm both changed the array they were given.
C11_Witness ==
    /\ pc = "done"
    /\ refMatrixResult # augmentedMatrixResult
    /\ rrefMatrixResult # refMatrixResult
    /\ shared = {"rrefMatrixResult"}

\* C12: the k-th vector of findNullSpaceSolution has 1 at the k-th free
\* column nonPivotColumns[k], at the pivot column of every pivot row r the
\* negative of the RREF entry of row r at that free column, and 0 elsewhere.
C12_NullSpaceVectorShape ==
    pc = "done" =>
        \A k \in 1..Len(nullSpaceSolution) :
            /\ k <= Len(nonPivotColumns)
            /\ LET free == nonPivotColumns[k]
                   PivotRows(c) == {r \in 1..Len(rrefMatrixResult) :
                                       findIndex(rrefMatrixResult[r]) = c}
               IN  \A c \in 0..(Len(nullSpaceSolution[k]) - 1) :
                       nullSpaceSolution[k][c + 1] =
                           IF c = free THEN One
                           ELSE IF PivotRows(c) # {}
                           THEN Neg(rrefMatrixResult[CHOOSE r \in PivotRows(c) : TRUE][free + 1])
                           ELSE Zero

\* C13: for every nonzero row i of the RREF matrix, pivotColumns[i] is the
\* pivot column of row i, also when a zero row precedes a nonzero row.
C13_PivotPositionIsRow ==
    pc \in AfterIdentify =>
        \A r \in 1..Len(rrefMatrixResult) :
            findIndex(rrefMatrixResult[r]) # 0 - 1 =>
                /\ r <= Len(pivotColumns)
                /\ pivotColumns[r] = findIndex(rrefMatrixResult[r])

\* C14: on a matrix of numbers rowEchelonForm never throws "Division by
\* zero": a pivot that is found is not null, and an iteration on a row without
\* a nonzero entry leaves the matrix as it is and goes on.
C14_NoDivisionByZeroThrow ==
    /\ [](error # "Division by zero. Choose a different A and/or b.")
    /\ []((pc = "ref" /\ i < Len(matrix) /\ findIndex(matrix[i + 1]) # 0 - 1) =>
             matrix[i + 1][findIndex(matrix[i + 1]) + 1] # Null)
    /\ [][(pc = "ref" /\ i < Len(matrix) /\ findIndex(matrix[i + 1]) = 0 - 1) =>
             /\ matrix' = matrix
             /\ pc' \in {"ref", "rref"}]_vars

\* rowEchelonForm has returned after skipping a row without a nonzero entry
\* and after dividing another row by its pivot.
C14_Witness ==
    /\ pc = "rref"
    /\ i = Len(matrix) - 1
    /\ \E r \in 1..Len(A) : findIndex(augmentedMatrix(A, b)[r]) = 0 - 1
    /\ \E r \in 1..Len(A) : findIndex(refMatrixResult[r]) # 0 - 1
    /\ error = "none"

\* The vectors of the given length with integer entries in -MaxVal..MaxVal.
TestVectors(length) == [1..length -> {FromInt(v) : v \in (0 - MaxVal)..MaxVal}]

\* x satisfies every equation (row) of the augmented system mat within the
\* tolerance.
Satisfies(mat, x) ==
    \A r \in 1..Len(mat) : Near(DotUpTo(mat[r], x, Len(x)), mat[r][Len(x) + 1])

\* C15: after any number of iterations of rowEchelonForm and
\* reducedRowEchelonForm, a vector x satisfies the matrix iff it satisfies the
\* original augmented system [A | b] (x over the test vectors, equations
\* within the tolerance).
C15_SolutionSetPreserved ==
    (pc \in {"ref", "rref", "identify"} /\ Len(A) > 0) =>
        \A x \in TestVectors(Len(A[1])) :
            Satisfies(matrix, x) <=> Satisfies(augmentedMatrix(A, b), x)

====
